---------------------------- MODULE Spec2Model ----------------------------
(***************************************************************************)
(* Model of package structs, field.go: the Field descriptor over a live    *)
(* record, its accessors, Set/Zero and the descent operations Fields and   *)
(* Field(name).                                                            *)
(*                                                                         *)
(* A Go value is a pair <<type, payload>>.  A reflect.Value is a handle    *)
(* [root, path, typ, addr, stickyRO, embedRO]: a storage location plus the *)
(* flags reflect keeps (flagAddr, flagStickyRO, flagEmbedRO).              *)
(*                                                                         *)
(* The records the descriptors range over are declared as                  *)
(*                                                                         *)
(*   type Root struct {                                                    *)
(*       Name   string                                                     *)
(*       secret int                                                        *)
(*       N      Inner                                                      *)
(*       P      *Inner                                                     *)
(*       n      Inner                                                      *)
(*       Any    interface{}                                                *)
(*   }                                                                     *)
(*   type Inner struct {                                                   *)
(*       X    int                                                          *)
(*       Skip int `structs:"-" json:"skip"`                                *)
(*       D    Deep                                                         *)
(*       Base                                                              *)
(*       Meta                                                              *)
(*   }                                                                     *)
(*   type Deep struct {                                                    *)
(*       Z int `json:"-"`                                                  *)
(*       W int `structs:"-"`                                               *)
(*   }                                                                     *)
(*   type Base struct { ID int; Ver int }                                  *)
(*   type Meta struct { Ver int }                                          *)
(*                                                                         *)
(* with R.P = &R.N, so that the pointer field aliases the nested record.   *)
(***************************************************************************)
EXTENDS Integers, Sequences, FiniteSets, TLC

VARIABLES
    mem,     \* storage: the record R and a detached copy C of it
    wrapper, \* the Struct wrapper the descriptors come from: [raw, TagName]
    f,       \* the descriptor the caller holds (NoField: none)
    sel,     \* how f was obtained: the <<call, field name>> steps from the wrapper
    last,    \* the last call: [op, recv, arg, res, changed]
    sets     \* successful Set/Zero calls so far

vars == <<mem, wrapper, f, sel, last, sets>>

\* Largest int a caller offers to Set.
MaxInt == 1

\* A behaviour is followed up to its MaxSets-th successful Set/Zero call.
MaxSets == 2

-----------------------------------------------------------------------------
(* Static types (reflect.Type) *)

StructTypes == {"Root", "Inner", "Deep", "Base", "Meta"}

\* reflect.StructField: Name, Type, PkgPath == "" (Exported), Anonymous, Tag.
\* A tag is the sequence of its key:"value" pairs.
SF(name, typ, exported, anonymous, tag) ==
    [Name |-> name, Type |-> typ, Exported |-> exported,
     Anonymous |-> anonymous, Tag |-> tag]

\* The fields of a struct type in declared order.
StructFields(T) ==
    CASE T = "Root" ->
           << SF("Name",   "string",       TRUE,  FALSE, <<>>),
              SF("secret", "int",          FALSE, FALSE, <<>>),
              SF("N",      "Inner",        TRUE,  FALSE, <<>>),
              SF("P",      "*Inner",       TRUE,  FALSE, <<>>),
              SF("n",      "Inner",        FALSE, FALSE, <<>>),
              SF("Any",    "interface {}", TRUE,  FALSE, <<>>) >>
      [] T = "Inner" ->
           << SF("X",    "int",  TRUE, FALSE, <<>>),
              SF("Skip", "int",  TRUE, FALSE,
                 << <<"structs", "-">>, <<"json", "skip">> >>),
              SF("D",    "Deep", TRUE, FALSE, <<>>),
              SF("Base", "Base", TRUE, TRUE,  <<>>),
              SF("Meta", "Meta", TRUE, TRUE,  <<>>) >>
      [] T = "Deep" ->
           << SF("Z", "int", TRUE, FALSE, << <<"json", "-">> >>),
              SF("W", "int", TRUE, FALSE, << <<"structs", "-">> >>) >>
      [] T = "Base" ->
           << SF("ID",  "int", TRUE, FALSE, <<>>),
              SF("Ver", "int", TRUE, FALSE, <<>>) >>
      [] T = "Meta" ->
           << SF("Ver", "int", TRUE, FALSE, <<>>) >>
      [] OTHER -> <<>>

FieldNames(T) == { StructFields(T)[i].Name : i \in 1..Len(StructFields(T)) }

FieldNamed(T, name) ==
    CHOOSE sf \in { StructFields(T)[i] : i \in 1..Len(StructFields(T)) } :
        sf.Name = name

\* reflect.Type.Kind
KindOf(T) ==
    CASE T \in StructTypes   -> "struct"
      [] T = "*Inner"        -> "ptr"
      [] T = "interface {}"  -> "interface"
      [] T = "invalid"       -> "invalid"
      [] OTHER               -> T

\* reflect.Type.AssignableTo: identical types, or the target is an interface
\* the type implements (every type implements interface{}).
AssignableTo(T, U) == T = U \/ U = "interface {}"

\* reflect.StructTag.Get: the value of the first pair with the key, else "".
RECURSIVE TagGet(_, _)
TagGet(tag, key) ==
    IF tag = <<>> THEN ""
    ELSE IF Head(tag)[1] = key THEN Head(tag)[2]
    ELSE TagGet(Tail(tag), key)

-----------------------------------------------------------------------------
(* Go values *)

TypeOf(x)  == x[1]
Payload(x) == x[2]

\* The nil interface value: no dynamic type.
NilIface == <<"nil", "">>

StrV(s)   == <<"string", s>>
IntV(i)   == <<"int", i>>
\* float64 payloads are "0" and "NaN".
FloatV(x) == <<"float64", x>>
\* A pointer is nil or the location [root, path] of the variable pointed to.
NilPtr    == [root |-> "nil", path |-> <<>>]
PtrV(p)   == <<"*Inner", p>>
\* An interface-typed location holds <<>> (nil) or <<dynamic value>>.
IfaceV(box) == <<"interface {}", box>>

\* reflect.Zero(T) as a stored value.
RECURSIVE ZeroOf(_)
ZeroOf(T) ==
    CASE T = "string"       -> StrV("")
      [] T = "int"          -> IntV(0)
      [] T = "float64"      -> FloatV("0")
      [] T = "*Inner"       -> PtrV(NilPtr)
      [] T = "interface {}" -> IfaceV(<<>>)
      [] OTHER -> <<T, [n \in FieldNames(T) |-> ZeroOf(FieldNamed(T, n).Type)]>>

\* The value stored at a path of field names below a value.
RECURSIVE GetAt(_, _)
GetAt(val, path) ==
    IF path = <<>> THEN val
    ELSE GetAt(Payload(val)[Head(path)], Tail(path))

\* The value with the sub-value at the path replaced.
RECURSIVE PutAt(_, _, _)
PutAt(val, path, new) ==
    IF path = <<>> THEN new
    ELSE <<TypeOf(val),
           [Payload(val) EXCEPT ![Head(path)] =
                PutAt(Payload(val)[Head(path)], Tail(path), new)]>>

-----------------------------------------------------------------------------
(* reflect.Value handles *)

Handle(root, path, typ, addr, stickyRO, embedRO) ==
    [root |-> root, path |-> path, typ |-> typ, addr |-> addr,
     stickyRO |-> stickyRO, embedRO |-> embedRO]

\* The zero reflect.Value.
InvalidValue == Handle("none", <<>>, "invalid", FALSE, FALSE, FALSE)

Load(m, h) == GetAt(m[h.root], h.path)

Store(m, h, val) == [m EXCEPT ![h.root] = PutAt(@, h.path, val)]

\* flagRO: the value was reached through an unexported field.
RO(h) == h.stickyRO \/ h.embedRO

\* reflect.Value.CanSet: addressable and not reached through an unexported field.
CanSet(h) == h.addr /\ ~RO(h)

\* reflect.Value.Field: the handle of a field keeps flagAddr and flagStickyRO
\* of the struct and gains a read-only flag when the field is unexported.
ValueField(h, sf) ==
    Handle(h.root, Append(h.path, sf.Name), sf.Type, h.addr,
           h.stickyRO \/ (~sf.Exported /\ ~sf.Anonymous),
           ~sf.Exported /\ sf.Anonymous)

\* reflect.Value.Elem of a pointer: the variable pointed to, addressable;
\* the zero Value for a nil pointer.
Elem(p, pointee) ==
    IF p = NilPtr THEN InvalidValue
    ELSE Handle(p.root, p.path, pointee, TRUE, FALSE, FALSE)

\* reflect.Value.Interface of a readable handle: the dynamic value of an
\* interface-typed location, the stored value otherwise.
Interface(m, h) ==
    IF KindOf(h.typ) = "interface"
    THEN IF Payload(Load(m, h)) = <<>> THEN NilIface ELSE Payload(Load(m, h))[1]
    ELSE Load(m, h)

\* reflect.Zero(T).Interface()
ZeroInterface(T) ==
    IF KindOf(T) = "interface" THEN NilIface ELSE ZeroOf(T)

\* reflect.Type.FieldByName: breadth first over the embedded structs; a name
\* found once at the shallowest depth wins, found twice at that depth it is
\* ambiguous and not found.  The result is the sequence of StructFields from
\* the struct to the field (its Index), or <<>>.
RECURSIVE FieldByNameLevel(_, _, _)
FieldByNameLevel(T, name, paths) ==
    LET TypeAt(p) == IF p = <<>> THEN T ELSE p[Len(p)].Type
        Fs(p)     == { StructFields(TypeAt(p))[i] :
                         i \in 1..Len(StructFields(TypeAt(p))) }
        hits == UNION { { Append(p, sf) : sf \in { g \in Fs(p) : g.Name = name } }
                        : p \in paths }
        next == UNION { { Append(p, sf) :
                            sf \in { g \in Fs(p) : g.Anonymous
                                         /\ KindOf(g.Type) = "struct" } }
                        : p \in paths }
    IN  IF Cardinality(hits) = 1 THEN CHOOSE p \in hits : TRUE
        ELSE IF hits # {} \/ next = {} THEN <<>>
        ELSE FieldByNameLevel(T, name, next)

TypeFieldByName(T, name) == FieldByNameLevel(T, name, {<<>>})

\* reflect.Value.FieldByIndex: Field applied along the index.
RECURSIVE FieldByIndex(_, _)
FieldByIndex(h, index) ==
    IF index = <<>> THEN h
    ELSE FieldByIndex(ValueField(h, Head(index)), Tail(index))

\* reflect.Value.FieldByName
ValueFieldByName(h, name) == FieldByIndex(h, TypeFieldByName(h.typ, name))

\* reflect.DeepEqual on two values of one type.
RECURSIVE DeepValueEqual(_, _, _)
DeepValueEqual(m, a, b) ==
    IF TypeOf(a) # TypeOf(b) THEN FALSE
    ELSE CASE KindOf(TypeOf(a)) = "struct" ->
                \A n \in FieldNames(TypeOf(a)) :
                    DeepValueEqual(m, Payload(a)[n], Payload(b)[n])
           [] KindOf(TypeOf(a)) = "ptr" ->
                \/ Payload(a) = Payload(b)
                \/ /\ Payload(a) # NilPtr
                   /\ Payload(b) # NilPtr
                   /\ DeepValueEqual(m, GetAt(m[Payload(a).root], Payload(a).path),
                                        GetAt(m[Payload(b).root], Payload(b).path))
           [] KindOf(TypeOf(a)) = "interface" ->
                IF Payload(a) = <<>> \/ Payload(b) = <<>>
                THEN Payload(a) = Payload(b)
                ELSE DeepValueEqual(m, Payload(a)[1], Payload(b)[1])
           [] KindOf(TypeOf(a)) = "float64" ->
                Payload(a) # "NaN" /\ Payload(a) = Payload(b)
           [] OTHER -> Payload(a) = Payload(b)

\* reflect.DeepEqual on two interface values.
DeepEqual(m, x, y) ==
    IF TypeOf(x) = "nil" \/ TypeOf(y) = "nil"
    THEN TypeOf(x) = TypeOf(y)
    ELSE DeepValueEqual(m, x, y)

-----------------------------------------------------------------------------
(* type Field struct { value reflect.Value; field reflect.StructField;     *)
(*                     defaultTag string }                                 *)

Descriptor(value, field, defaultTag) ==
    [value |-> value, field |-> field, defaultTag |-> defaultTag]

\* The nil *Field.
NoField == Descriptor(InvalidValue, SF("", "invalid", TRUE, FALSE, <<>>), "")

errNotExported == <<"error", <<"field is not exported">> >>
errNotSettable == <<"error", <<"field is not settable">> >>
\* fmt.Errorf("can't assign %s to %s", value.Type(), f.value.Type())
errAssign(from, to) == <<"error", <<"can't assign", from, "to", to>> >>
NoError == <<"nil", "">>
\* A call that does not return: the panic and the reflect call raising it.
Panic(what) == <<"panic", what>>

Tag(d, key) == TagGet(d.field.Tag, key)

\* f.value.Interface() panics on a value reached through an unexported field.
Value(m, d) ==
    IF RO(d.value) THEN Panic("Value.Interface") ELSE Interface(m, d.value)

IsEmbedded(d) == d.field.Anonymous

IsExported(d) == d.field.Exported

IsZero(m, d) ==
    LET zero    == ZeroInterface(d.value.typ)
        current == Value(m, d)
    IN  IF TypeOf(current) = "panic" THEN current
        ELSE <<"bool", DeepEqual(m, current, zero)>>

Name(d) == d.field.Name

Kind(d) == KindOf(d.value.typ)

\* Set with the assignment made to a copy of the value handle's variable.
SetLosesWrite(m, d, val) ==
    IF ~IsExported(d) THEN [mem |-> m, res |-> errNotExported]
    ELSE IF ~CanSet(d.value) THEN [mem |-> m, res |-> errNotSettable]
    ELSE IF TypeOf(val) = "nil" THEN [mem |-> m, res |-> Panic("Value.Type")]
    ELSE IF ~AssignableTo(TypeOf(val), d.value.typ)
         THEN [mem |-> m, res |-> errAssign(TypeOf(val), d.value.typ)]
    ELSE [mem |-> m, res |-> NoError]

\* Set without the IsExported check.
SetNoExportCheck(m, d, val) ==
    IF ~CanSet(d.value) THEN [mem |-> m, res |-> errNotSettable]
    ELSE IF TypeOf(val) = "nil" THEN [mem |-> m, res |-> Panic("Value.Type")]
    ELSE IF ~AssignableTo(TypeOf(val), d.value.typ)
         THEN [mem |-> m, res |-> errAssign(TypeOf(val), d.value.typ)]
    ELSE [mem |-> Store(m, d.value,
                        IF KindOf(d.value.typ) = "interface"
                        THEN IfaceV(<<val>>) ELSE val),
          res |-> NoError]

\* Set without the CanSet check.
SetNoCanSetCheck(m, d, val) ==
    IF ~IsExported(d) THEN [mem |-> m, res |-> errNotExported]
    ELSE IF TypeOf(val) = "nil" THEN [mem |-> m, res |-> Panic("Value.Type")]
    ELSE IF ~AssignableTo(TypeOf(val), d.value.typ)
         THEN [mem |-> m, res |-> errAssign(TypeOf(val), d.value.typ)]
    ELSE [mem |-> Store(m, d.value,
                        IF KindOf(d.value.typ) = "interface"
                        THEN IfaceV(<<val>>) ELSE val),
          res |-> NoError]

\* Set returns the memory after the call and what the call returned.
Set(m, d, val) ==
    IF ~IsExported(d) THEN [mem |-> m, res |-> errNotExported]
    ELSE IF ~CanSet(d.value) THEN [mem |-> m, res |-> errNotSettable]
    ELSE IF TypeOf(val) = "nil"
         \* reflect.ValueOf(nil) is the zero Value and its Type() panics
         THEN [mem |-> m, res |-> Panic("Value.Type")]
    ELSE IF ~AssignableTo(TypeOf(val), d.value.typ)
         THEN [mem |-> m, res |-> errAssign(TypeOf(val), d.value.typ)]
    ELSE [mem |-> Store(m, d.value,
                        IF KindOf(d.value.typ) = "interface"
                        THEN IfaceV(<<val>>) ELSE val),
          res |-> NoError]

Zero(m, d) == Set(m, d, ZeroInterface(d.value.typ))

\* structVal(s): the struct a pointer chain leads to; aborts when there is
\* none.  The argument is "nil" or the handle of the variable pointed to.
structVal(target) ==
    IF target.typ = "invalid" \/ KindOf(target.typ) # "struct"
    THEN InvalidValue
    ELSE target

\* getFields(v, tagName): the descriptors of the immediate fields in declared
\* order, without those tagged "-" under tagName.
getFields(m, v, tagName) ==
    LET s == IF KindOf(v.typ) = "ptr"
             THEN Elem(Payload(Load(m, v)), "Inner") ELSE v
    IN  IF KindOf(s.typ) # "struct" THEN Panic("Type.NumField")
        ELSE LET Keep(sf) == TagGet(sf.Tag, tagName) # "-"
                 kept == SelectSeq(StructFields(s.typ), Keep)
             IN  <<"fields",
                   [i \in 1..Len(kept) |->
                      Descriptor(ValueFieldByName(s, kept[i].Name),
                                 kept[i], tagName)]>>

Fields(m, d) == getFields(m, d.value, d.defaultTag)

\* Field resolving the nested field in f.value.Interface(), a copy of the
\* struct, instead of in the struct f.value.Addr() points to.
FieldOfCopy(m, d, name) ==
    IF RO(d.value) THEN Panic("Value.Interface")
    ELSE LET target == IF Kind(d) = "ptr"
                       THEN Elem(Payload(Load(m, d.value)), "Inner")
                       ELSE Handle(d.value.root, d.value.path, d.value.typ,
                                   FALSE, FALSE, FALSE)
             v == structVal(target)
         IN  IF v = InvalidValue THEN Panic("not struct")
             ELSE LET index == TypeFieldByName(v.typ, name)
                  IN  IF index = <<>> THEN <<"nil", "">>
                      ELSE <<"field",
                             Descriptor(ValueFieldByName(v, name),
                                        index[Len(index)], "")>>

\* Field looking the name up among the declared fields only.
FieldImmediateOnly(m, d, name) ==
    IF Kind(d) # "ptr" /\ ~d.value.addr THEN Panic("Value.Addr")
    ELSE IF RO(d.value) THEN Panic("Value.Interface")
    ELSE LET target == IF Kind(d) = "ptr"
                       THEN Elem(Payload(Load(m, d.value)), "Inner")
                       ELSE Handle(d.value.root, d.value.path, d.value.typ,
                                   TRUE, FALSE, FALSE)
             v == structVal(target)
         IN  IF v = InvalidValue THEN Panic("not struct")
             ELSE IF name \notin FieldNames(v.typ) THEN <<"nil", "">>
             ELSE <<"field",
                    Descriptor(ValueField(v, FieldNamed(v.typ, name)),
                               FieldNamed(v.typ, name), "")>>

Field(m, d, name) ==
    IF Kind(d) # "ptr" /\ ~d.value.addr THEN Panic("Value.Addr")
    ELSE IF RO(d.value) THEN Panic("Value.Interface")
    ELSE LET target == IF Kind(d) = "ptr"
                       THEN Elem(Payload(Load(m, d.value)), "Inner")
                       ELSE Handle(d.value.root, d.value.path, d.value.typ,
                                   TRUE, FALSE, FALSE)
             v == structVal(target)
         IN  IF v = InvalidValue THEN Panic("not struct")
             ELSE LET index == TypeFieldByName(v.typ, name)
                  IN  IF index = <<>> THEN <<"nil", "">>
                      ELSE <<"field",
                             Descriptor(ValueFieldByName(v, name),
                                        index[Len(index)], "")>>

-----------------------------------------------------------------------------
(* The caller *)

\* DefaultTagName and a TagName a caller may choose instead.
TagKeys == {"structs", "json"}

\* Names offered to Field(name).
Names == {"X", "Skip", "D", "Base", "ID", "Ver", "W", "Nope"}

InnerV(x, id) ==
    PutAt(PutAt(ZeroOf("Inner"), <<"X">>, IntV(x)), <<"Base", "ID">>, IntV(id))

\* Values offered to Set.
Vals ==
    {NilIface, StrV("a"), FloatV("NaN"), InnerV(0, 0)}
    \cup { IntV(i) : i \in 0..MaxInt }

\* The record the caller builds; R.P is nil or &R.N.
Record(p) ==
    <<"Root",
      [n \in FieldNames("Root") |->
         CASE n = "Name"   -> StrV("a")
           [] n = "secret" -> IntV(1)
           [] n = "N"      -> InnerV(1, 0)
           [] n = "P"      -> PtrV(p)
           [] n = "n"      -> InnerV(1, 1)
           [] n = "Any"    -> IfaceV(<<IntV(1)>>)]>>

Call(op, recv, arg, res, changed) ==
    [op |-> op, recv |-> recv, arg |-> arg, res |-> res, changed |-> changed]

Init ==
    /\ \E p \in {NilPtr, [root |-> "R", path |-> <<"N">>]} :
         mem = [R |-> Record(p), C |-> Record(p)]
    /\ wrapper = [raw |-> "R", TagName |-> "structs"]
    /\ f = NoField
    /\ sel = <<>>
    /\ last = Call("init", NoField, NilIface, NoError, FALSE)
    /\ sets = 0

\* structs.New(&R) or structs.New(R), TagName chosen, then Fields()[i-1].
\* New(R) wraps the copy C of R, whose storage is not addressable.
NewStruct ==
    /\ f = NoField
    /\ sets < MaxSets
    /\ \E raw \in {"R", "C"}, key \in TagKeys :
      LET v  == Handle(raw, <<>>, "Root", raw = "R", FALSE, FALSE)
          fs == getFields(mem, v, key)[2]
      IN  \E i \in 1..Len(fs) :
            /\ UNCHANGED mem
            /\ wrapper' = [raw |-> raw, TagName |-> key]
            /\ f' = fs[i]
            /\ sel' = << <<"New", fs[i].field.Name>> >>
            /\ last' = Call("New", NoField, StrV(key), <<"field", "">>, FALSE)
            /\ UNCHANGED sets

CallSet ==
    /\ f # NoField
    /\ sets < MaxSets
    /\ \E val \in Vals :
         LET r == Set(mem, f, val)
         IN  /\ mem' = r.mem
             /\ last' = Call("Set", f, val, r.res, r.mem # mem)
             /\ sets' = IF r.res[1] = "nil" THEN sets + 1 ELSE sets
             /\ UNCHANGED <<wrapper, f, sel>>

CallZero ==
    /\ f # NoField
    /\ sets < MaxSets
    /\ LET r == Zero(mem, f)
       IN  /\ mem' = r.mem
           /\ last' = Call("Zero", f, NilIface, r.res, r.mem # mem)
           /\ sets' = IF r.res[1] = "nil" THEN sets + 1 ELSE sets
           /\ UNCHANGED <<wrapper, f, sel>>

\* f.Fields(), after which the caller keeps f (i = 0) or goes on with the
\* i-th descriptor returned.
CallFields ==
    /\ f # NoField
    /\ sets < MaxSets
    /\ LET r == Fields(mem, f)
           n == IF r[1] = "fields" THEN Len(r[2]) ELSE 0
       IN  \E i \in 0..n :
             /\ f' = IF i = 0 THEN f ELSE r[2][i]
             /\ sel' = IF i = 0 THEN sel
                       ELSE Append(sel, <<"Fields", r[2][i].field.Name>>)
             /\ last' = Call("Fields", f, IntV(i),
                             IF r[1] = "fields"
                             THEN <<"fields", [k \in 1..n |-> Name(r[2][k])]>>
                             ELSE r,
                             FALSE)
             /\ UNCHANGED <<mem, wrapper, sets>>

\* f.Field(name); the caller goes on with the descriptor returned, if any.
CallField ==
    /\ f # NoField
    /\ sets < MaxSets
    /\ \E name \in Names :
         LET r == Field(mem, f, name)
         IN  /\ f' = IF r[1] = "field" THEN r[2] ELSE f
             /\ sel' = IF r[1] = "field" THEN Append(sel, <<"Field", name>>) ELSE sel
             /\ last' = Call("Field", f, StrV(name),
                             IF r[1] = "field" THEN <<"field", "">> ELSE r,
                             FALSE)
             /\ UNCHANGED <<mem, wrapper, sets>>

Next == NewStruct \/ CallSet \/ CallZero \/ CallFields \/ CallField

Spec == Init /\ [][Next]_vars

-----------------------------------------------------------------------------
(* What the caller sees without the package: Go's selector expressions *)

FieldSet(T) == { StructFields(T)[i] : i \in 1..Len(StructFields(T)) }

\* The type a chain of field names leads to.
RECURSIVE TypeAfter(_, _)
TypeAfter(T, chain) ==
    IF chain = <<>> THEN T
    ELSE TypeAfter(FieldNamed(T, Head(chain)).Type, Tail(chain))

\* The chains of d embedded fields below T.
RECURSIVE EmbeddedChains(_, _)
EmbeddedChains(T, d) ==
    IF d = 0 THEN {<<>>}
    ELSE UNION { { Append(c, sf.Name) :
                     sf \in { g \in FieldSet(TypeAfter(T, c)) : g.Anonymous } }
                 : c \in EmbeddedChains(T, d - 1) }

SelectorPaths(T, name, d) ==
    { Append(c, name) :
        c \in { e \in EmbeddedChains(T, d) : name \in FieldNames(TypeAfter(T, e)) } }

\* x.name denotes the field at the shallowest depth where there is one; it is
\* illegal where there are several at that depth.
Selected(T, name) ==
    LET depths == { d \in 0..Cardinality(StructTypes) :
                      SelectorPaths(T, name, d) # {} }
    IN  IF depths = {} THEN {}
        ELSE SelectorPaths(T, name,
                           CHOOSE d \in depths : \A e \in depths : d <= e)

Promoted(T, name) ==
    name \notin FieldNames(T) /\ Cardinality(Selected(T, name)) = 1

\* The value of the expression val.n1.n2...; pointers are dereferenced.
RECURSIVE Select(_, _, _)
Select(m, val, names) ==
    IF names = <<>> THEN val
    ELSE LET s == IF KindOf(TypeOf(val)) = "ptr"
                  THEN GetAt(m[Payload(val).root], Payload(val).path)
                  ELSE val
             path == CHOOSE q \in Selected(TypeOf(s), Head(names)) : TRUE
         IN  Select(m, GetAt(s, path), Tail(names))

\* A stored value as the interface{} a read of it yields.
AsInterface(val) ==
    IF TypeOf(val) = "interface {}"
    THEN IF Payload(val) = <<>> THEN NilIface ELSE Payload(val)[1]
    ELSE val

SelNames == [i \in 1..Len(sel) |-> sel[i][2]]

\* The expression, over the wrapped record, for the field f describes.
DirectRead == AsInterface(Select(mem, mem[wrapper.raw], SelNames))

\* The record type below a descriptor: of the struct, or of the pointer's target.
RecordType(d) == IF Kind(d) = "ptr" THEN "Inner" ELSE d.value.typ

\* Every descriptor a caller can obtain in three steps from any wrapper.
Children(m, d) ==
    (IF Fields(m, d)[1] = "fields"
     THEN { Fields(m, d)[2][i] : i \in 1..Len(Fields(m, d)[2]) } ELSE {})
    \cup { Field(m, d, n)[2] : n \in { k \in Names : Field(m, d, k)[1] = "field" } }

Obtainable(m) ==
    LET roots == UNION { Children(m, Descriptor(
                             Handle(raw, <<>>, "Root", raw = "R", FALSE, FALSE),
                             SF("", "Root", TRUE, FALSE, <<>>), key))
                         : raw \in {"R", "C"}, key \in TagKeys }
        second == UNION { Children(m, d) : d \in roots }
    IN  roots \cup second \cup UNION { Children(m, d) : d \in second }

SameLocation(d, e) ==
    d.value.root = e.value.root /\ d.value.path = e.value.path

Returned(kind) == last.res[1] = kind

Failed(err) == last.res[1] = "error" /\ last.res[2] = err[2]

-----------------------------------------------------------------------------
(* Claims *)

C2_NotExported ==
    (last.op = "Set" /\ ~IsExported(last.recv))
    => Failed(errNotExported) /\ ~last.changed /\ f = last.recv

C2_Witness ==
    /\ last.op = "Set"
    /\ ~IsExported(last.recv)
    /\ last.recv.value.addr
    /\ AssignableTo(TypeOf(last.arg), last.recv.value.typ)
    /\ Failed(errNotExported)

\* C3: Set on an exported field whose handle is not addressable (it derives
\* from the detached copy) fails with errNotSettable, whatever the argument,
\* and no storage changes.
C3_NotSettable ==
    (last.op = "Set" /\ IsExported(last.recv) /\ ~last.recv.value.addr)
    => Failed(errNotSettable) /\ ~last.changed

C3_Witness ==
    /\ last.op = "Set"
    /\ IsExported(last.recv)
    /\ ~last.recv.value.addr
    /\ wrapper.raw = "C"
    /\ ~AssignableTo(TypeOf(last.arg), last.recv.value.typ)
    /\ Failed(errNotSettable)

\* C4 as stated, for the fields that pass Set's exported and settable checks:
\* Set(v) with v of a type not assignable to the field's type, or with nil,
\* fails with the error naming both types, and no storage changes.
C4_TypeMismatch ==
    ( /\ last.op = "Set"
      /\ IsExported(last.recv)
      /\ CanSet(last.recv.value)
      /\ \/ TypeOf(last.arg) = "nil"
         \/ ~AssignableTo(TypeOf(last.arg), last.recv.value.typ) )
    => /\ Failed(errAssign(TypeOf(last.arg), last.recv.value.typ))
       /\ ~last.changed

\* C5 as stated: Zero() succeeds exactly when the field is exported and its
\* handle settable; after a success IsZero() is true; a failure is an error
\* returned and no storage changes.
C5_Zero ==
    last.op = "Zero"
    => /\ Returned("nil") <=> (IsExported(last.recv) /\ CanSet(last.recv.value))
       /\ Returned("nil") => IsZero(mem, f) = <<"bool", TRUE>>
       /\ ~Returned("nil") => Returned("error") /\ ~last.changed

\* C6: a descriptor returned by Field(name) is over the record's own storage,
\* never over a detached copy, and is settable when it is exported and its
\* parent was settable; after a Set(v) through it succeeds, the expression
\* R.N.X over the wrapped record yields v, and so does every other descriptor
\* of that location.
C6_MutationThroughLookup ==
    /\ (last.op = "Field" /\ Returned("field"))
       => /\ f.value.root = "R" /\ f.value.addr
          /\ (IsExported(f) /\ CanSet(last.recv.value)) => CanSet(f.value)
    /\ ( /\ last.op = "Set"
         /\ Returned("nil")
         /\ sel[Len(sel)][1] = "Field" )
       => /\ DeepEqual(mem, DirectRead, last.arg)
          /\ \A d \in Obtainable(mem) :
                (SameLocation(d, f) /\ ~RO(d.value))
                => DeepEqual(mem, Value(mem, d), last.arg)

C6_Witness ==
    /\ last.op = "Set"
    /\ Returned("nil")
    /\ last.changed
    /\ Len(sel) = 2
    /\ sel[2][1] = "Field"
    /\ sel[1][2] \in {"N", "P"}
    /\ DeepEqual(mem, AsInterface(Select(mem, mem.R, <<"N", "X">>)), last.arg)
    /\ \E d \in Obtainable(mem) : SameLocation(d, f) /\ d # f

\* C7 as stated: Fields() of a descriptor, however it was obtained, lists the
\* immediate fields of its record in declared order without those tagged "-"
\* under the wrapper's tag key; Field(name) still returns the descriptor of
\* such a field, with its current value.
C7_SkipMarker ==
    /\ (last.op = "Fields" /\ Returned("fields"))
       => LET Shown(sf) == TagGet(sf.Tag, wrapper.TagName) # "-"
              shown == SelectSeq(StructFields(RecordType(last.recv)), Shown)
          IN  last.res[2] = [i \in 1..Len(shown) |-> shown[i].Name]
    /\ ( /\ last.op = "Field"
         /\ ~Returned("panic")
         /\ Payload(last.arg) \in FieldNames(RecordType(last.recv))
         /\ TagGet(FieldNamed(RecordType(last.recv), Payload(last.arg)).Tag,
                   wrapper.TagName) = "-" )
       => /\ Returned("field")
          /\ Name(f) = Payload(last.arg)
          /\ Value(mem, f) = DirectRead

C9_DefaultTagPreserved ==
    f # NoField => f.defaultTag = wrapper.TagName

=============================================================================
